---- MODULE Spec2Model ----
(***************************************************************************)
(* Model of src/app.py: the activity store (an in-memory mapping backed by *)
(* a JSON file, written by temp-file-then-rename) and the HTTP handlers    *)
(* signup, unregister and reload that act on it.                           *)
(*                                                                         *)
(* Python objects live in a heap of JSON values, so that a reference to a  *)
(* mapping taken before a reload keeps pointing at the old object.  A file *)
(* is a sequence of JSON tokens (whitespace and indentation carry no       *)
(* meaning for json.load and are left out).  Each handler is a sequence of *)
(* steps, one per source line that reads or writes shared state.           *)
(*                                                                         *)
(* Spec runs the requests one after the other, with every filesystem call  *)
(* of save_activities able to fail and the file edited out of band between *)
(* requests.  SpecConc lets the requests overlap, as the thread pool of the *)
(* synchronous handlers does, on a filesystem that does not fail.          *)
(***************************************************************************)
EXTENDS Integers, Sequences, FiniteSets, TLC

\* ------------------------------------------------------------------ bounds
NumProcs == 2
MaxObjs == 3
\* requests begun in a run of the concurrent specification
MaxRequests == 2

Procs == 1..NumProcs
ObjIds == 1..MaxObjs

\* ------------------------------------------------------------- JSON values
JStr(s) == [t |-> "str", s |-> s]
JNum(n) == [t |-> "num", n |-> n]
JArr(items) == [t |-> "arr", items |-> items]
JObj(members) == [t |-> "obj", members |-> members]
Member(k, v) == [k |-> k, v |-> v]
NoVal == [t |-> "none"]

IsObj(v) == v.t = "obj"
IsArr(v) == v.t = "arr"

\* dict lookups: `k in d`, `d[k]` and `d[k] = v` on an insertion-ordered dict
KeyIndex(d, k) == CHOOSE i \in 1..Len(d.members) : d.members[i].k = k
HasKey(d, k) == \E i \in 1..Len(d.members) : d.members[i].k = k
Get(d, k) == d.members[KeyIndex(d, k)].v
Put(d, k, v) ==
    IF HasKey(d, k)
    THEN JObj([d.members EXCEPT ![KeyIndex(d, k)] = Member(k, v)])
    ELSE JObj(Append(d.members, Member(k, v)))
Keys(d) == {d.members[i].k : i \in 1..Len(d.members)}

\* list operations: `x in l`, l.append(x), l.remove(x), l.count(x)
ListHas(l, x) == \E i \in 1..Len(l.items) : l.items[i] = x
ListAppend(l, x) == JArr(Append(l.items, x))
FirstIndex(l, x) ==
    CHOOSE i \in 1..Len(l.items) :
        l.items[i] = x /\ \A j \in 1..(i - 1) : l.items[j] # x
ListRemove(l, x) ==
    LET i == FirstIndex(l, x)
    IN  JArr(SubSeq(l.items, 1, i - 1) \o SubSeq(l.items, i + 1, Len(l.items)))
ListCount(l, x) == Cardinality({i \in 1..Len(l.items) : l.items[i] = x})

\* ------------------------------------------------------------- JSON tokens
Tok(tk) == [tk |-> tk, s |-> "", n |-> 0]
TokStr(s) == [tk |-> "str", s |-> s, n |-> 0]
TokNum(n) == [tk |-> "num", s |-> "", n |-> n]

\* json.dump(data, tmp_file, indent=2, ensure_ascii=False): the token stream
RECURSIVE DumpVal(_), DumpItems(_), DumpMembers(_)
DumpVal(v) ==
    CASE v.t = "str" -> <<TokStr(v.s)>>
      [] v.t = "num" -> <<TokNum(v.n)>>
      [] v.t = "arr" -> <<Tok("[")>> \o DumpItems(v.items) \o <<Tok("]")>>
      [] v.t = "obj" -> <<Tok("{")>> \o DumpMembers(v.members) \o <<Tok("}")>>
DumpItems(s) ==
    IF s = <<>> THEN <<>>
    ELSE DumpVal(Head(s))
         \o (IF Len(s) > 1 THEN <<Tok(",")>> \o DumpItems(Tail(s)) ELSE <<>>)
DumpMembers(s) ==
    IF s = <<>> THEN <<>>
    ELSE <<TokStr(Head(s).k), Tok(":")>> \o DumpVal(Head(s).v)
         \o (IF Len(s) > 1 THEN <<Tok(",")>> \o DumpMembers(Tail(s)) ELSE <<>>)
\* mutant: the last token never reaches the file
json_dump_unflushed(v) == SubSeq(DumpVal(v), 1, Len(DumpVal(v)) - 1)
json_dump(v) == DumpVal(v)

\* json.load(f): a recursive-descent parse of the token stream.  A result is
\* [ok, v, next]; a repeated key keeps its first place and its last value, as
\* a Python dict does.
ParseFail == [ok |-> FALSE, v |-> NoVal, next |-> 0]
ParseOk(v, next) == [ok |-> TRUE, v |-> v, next |-> next]
RECURSIVE ParseVal(_, _), ParseItems(_, _, _), ParseMembers(_, _, _)
ParseVal(toks, i) ==
    IF i > Len(toks) THEN ParseFail
    ELSE CASE toks[i].tk = "str" -> ParseOk(JStr(toks[i].s), i + 1)
           [] toks[i].tk = "num" -> ParseOk(JNum(toks[i].n), i + 1)
           [] toks[i].tk = "[" ->
                IF i + 1 <= Len(toks) /\ toks[i + 1].tk = "]"
                THEN ParseOk(JArr(<<>>), i + 2)
                ELSE ParseItems(toks, i + 1, JArr(<<>>))
           [] toks[i].tk = "{" ->
                IF i + 1 <= Len(toks) /\ toks[i + 1].tk = "}"
                THEN ParseOk(JObj(<<>>), i + 2)
                ELSE ParseMembers(toks, i + 1, JObj(<<>>))
           [] OTHER -> ParseFail
ParseItems(toks, i, acc) ==
    LET r == ParseVal(toks, i)
    IN  IF ~r.ok \/ r.next > Len(toks) THEN ParseFail
        ELSE IF toks[r.next].tk = ","
             THEN ParseItems(toks, r.next + 1, ListAppend(acc, r.v))
        ELSE IF toks[r.next].tk = "]"
             THEN ParseOk(ListAppend(acc, r.v), r.next + 1)
        ELSE ParseFail
ParseMembers(toks, i, acc) ==
    IF i + 1 > Len(toks) \/ toks[i].tk # "str" \/ toks[i + 1].tk # ":"
    THEN ParseFail
    ELSE LET r == ParseVal(toks, i + 2)
         IN  IF ~r.ok \/ r.next > Len(toks) THEN ParseFail
             ELSE IF toks[r.next].tk = ","
                  THEN ParseMembers(toks, r.next + 1, Put(acc, toks[i].s, r.v))
             ELSE IF toks[r.next].tk = "}"
                  THEN ParseOk(Put(acc, toks[i].s, r.v), r.next + 1)
             ELSE ParseFail
json_load(toks) ==
    LET r == ParseVal(toks, 1)
    IN  IF r.ok /\ r.next = Len(toks) + 1 THEN r ELSE ParseFail

\* ------------------------------------------------------ the default store
Activity(description, schedule, max_participants, participants) ==
    JObj(<<Member("description", JStr(description)),
           Member("schedule", JStr(schedule)),
           Member("max_participants", JNum(max_participants)),
           Member("participants",
                  JArr([i \in 1..Len(participants) |-> JStr(participants[i])]))>>)

default_activities ==
    JObj(<<
      Member("Chess Club", Activity(
        "Learn strategies and compete in chess tournaments",
        "Fridays, 3:30 PM - 5:00 PM", 12,
        <<"michael@mergington.edu", "daniel@mergington.edu">>)),
      Member("Programming Class", Activity(
        "Learn programming fundamentals and build software projects",
        "Tuesdays and Thursdays, 3:30 PM - 4:30 PM", 20,
        <<"emma@mergington.edu", "sophia@mergington.edu">>)),
      Member("Gym Class", Activity(
        "Physical education and sports activities",
        "Mondays, Wednesdays, Fridays, 2:00 PM - 3:00 PM", 30,
        <<"john@mergington.edu", "olivia@mergington.edu">>)),
      Member("Soccer Team", Activity(
        "Join the school soccer team and compete in matches",
        "Tuesdays and Thursdays, 4:00 PM - 5:30 PM", 22,
        <<"liam@mergington.edu", "noah@mergington.edu">>)),
      Member("Basketball Team", Activity(
        "Practice and play basketball with the school team",
        "Wednesdays and Fridays, 3:30 PM - 5:00 PM", 15,
        <<"ava@mergington.edu", "mia@mergington.edu">>)),
      Member("Art Club", Activity(
        "Explore your creativity through painting and drawing",
        "Thursdays, 3:30 PM - 5:00 PM", 15,
        <<"amelia@mergington.edu", "harper@mergington.edu">>)),
      Member("Drama Club", Activity(
        "Act, direct, and produce plays and performances",
        "Mondays and Wednesdays, 4:00 PM - 5:30 PM", 20,
        <<"ella@mergington.edu", "scarlett@mergington.edu">>)),
      Member("Math Club", Activity(
        "Solve challenging problems and participate in math competitions",
        "Tuesdays, 3:30 PM - 4:30 PM", 10,
        <<"james@mergington.edu", "benjamin@mergington.edu">>)),
      Member("Debate Team", Activity(
        "Develop public speaking and argumentation skills",
        "Fridays, 4:00 PM - 5:30 PM", 12,
        <<"charlotte@mergington.edu", "henry@mergington.edu">>))
    >>)

\* ------------------------------------------------------------------ files
\* A file of the data directory: absent, or present with its token content.
NoFile == [x |-> FALSE, c |-> <<>>]
FileOf(c) == [x |-> TRUE, c |-> c]
Prefix(c, k) == SubSeq(c, 1, k)

\* ---------------------------------------------------------------- requests
ReqNames == {"Chess Club", "Unknown"}
ReqEmails == {"new@mergington.edu", "michael@mergington.edu"}
Requests ==
    [op : {"signup", "unregister"}, name : ReqNames, email : ReqEmails]
    \cup {[op |-> "reload", name |-> "", email |-> ""]}
NoReq == [op |-> "none", name |-> "", email |-> ""]
NoResp == [status |-> 0, count |-> -1]
NoPre == [mem |-> NoVal, file |-> NoFile, edited |-> FALSE]
NoLast == [req |-> NoReq, status |-> 0, n0 |-> -1, r0 |-> <<>>, sync0 |-> FALSE]

\* What an out-of-band edit may leave at the canonical path: a truncated
\* (unparsable) file, a JSON array, and a mapping of two activities, one
\* whose roster repeats an email and one with empty fields and no roster
\* entries.
CorruptContent == Prefix(json_dump(default_activities), 7)
ListContent == <<Tok("["), Tok("]")>>
EditedContent ==
    json_dump(JObj(<<
      Member("Chess Club", Activity("Edited", "Never", 1,
        <<"michael@mergington.edu", "daniel@mergington.edu",
          "michael@mergington.edu">>)),
      Member("Empty Club", Activity("", "", 0, <<>>))>>))
ExtContents == {CorruptContent, ListContent, EditedContent}

VARIABLES
    heap,        \* object id -> the JSON value of that Python object, or NoVal
    activities,  \* the module global `activities`: an object id
    file,        \* ACTIVITIES_FILE
    tmp,         \* per request thread: the temp file of its save_activities call
    pc,          \* per request thread: the source line it is about to execute
    req,         \* per request thread: the request (op, activity_name, email)
    activity,    \* per request thread: the mapping object its `activity` lives in
    data,        \* per request thread: `data` of load_activities/save_activities
    exc,         \* per request thread: an exception is propagating
    resp,        \* per request thread: the response (status, count)
    pre,         \* history: mapping value, file and `edited` when the request began
    last,        \* history: the request completed last, when a successful signup
                 \* or a signup or unregister whose save raised
    saved,       \* history: the value the last completed save wrote, if the
                 \* file was not edited out of band since
    edited,      \* history: the file was edited out of band and the program
                 \* has neither read nor replaced it since
    cleanup,     \* history, per request thread: what the finally block of
                 \* save_activities did ("none", "removed", "failed")
    begun        \* history: the number of requests begun, where it is counted

vars == <<heap, activities, file, tmp, pc, req, activity, data, exc, resp, pre, last,
          saved, edited, cleanup, begun>>

\* ------------------------------------------------------------------- heap
Roots(glob, acty, dat) ==
    ({glob} \cup {acty[p] : p \in Procs} \cup {dat[p] : p \in Procs}) \ {0}
Sweep(h, roots) == [o \in ObjIds |-> IF o \in roots THEN h[o] ELSE NoVal]
IsFree(h, o) == h[o].t = "none"
HasFree(h) == \E o \in ObjIds : IsFree(h, o)
NewObj(h) == CHOOSE o \in ObjIds : IsFree(h, o) /\ \A q \in 1..(o - 1) : ~IsFree(h, q)

\* participants of activity `name` in mapping value m (a well-formed store)
Participants(m, name) == Get(Get(m, name), "participants")
WithParticipants(m, name, l) == Put(m, name, Put(Get(m, name), "participants", l))
\* `name in m` for a dict (key test) or a list (element test)
PyIn(name, m) ==
    IF IsObj(m) THEN HasKey(m, name)
    ELSE IF IsArr(m) THEN ListHas(m, JStr(name))
    ELSE FALSE
\* len(m)
PyLen(m) == IF IsObj(m) THEN Len(m.members) ELSE IF IsArr(m) THEN Len(m.items) ELSE -1
\* m[name]["participants"] is a list one can search, append to and remove from
HasRoster(m, name) ==
    /\ IsObj(m) /\ HasKey(m, name)
    /\ IsObj(Get(m, name)) /\ HasKey(Get(m, name), "participants")
    /\ IsArr(Participants(m, name))

Init ==
    /\ heap = [o \in ObjIds |-> IF o = 1 THEN default_activities ELSE NoVal]
    /\ activities = 1
    /\ file = FileOf(json_dump(default_activities))
    /\ tmp = [p \in Procs |-> NoFile]
    /\ pc = [p \in Procs |-> "idle"]
    /\ req = [p \in Procs |-> NoReq]
    /\ activity = [p \in Procs |-> 0]
    /\ data = [p \in Procs |-> 0]
    /\ exc = [p \in Procs |-> FALSE]
    /\ resp = [p \in Procs |-> NoResp]
    /\ pre = [p \in Procs |-> NoPre]
    /\ last = NoLast
    /\ saved = default_activities
    /\ edited = FALSE
    /\ cleanup = [p \in Procs |-> "none"]
    /\ begun = 0

AllIdle == \A p \in Procs : pc[p] = "idle"

Goto(p, l) == pc' = [pc EXCEPT ![p] = l]
\* the handler ends: an HTTPException (400, 404), an unhandled error (500)
\* or a returned body (200)
Reply(p, status, count) ==
    /\ pc' = [pc EXCEPT ![p] = "done"]
    /\ resp' = [resp EXCEPT ![p] = [status |-> status, count |-> count]]

FirstLine(op) ==
    CASE op = "signup" -> "L136"
      [] op = "unregister" -> "L159"
      [] op = "reload" -> "L90"

\* a request arrives and a thread starts its handler (the specification
\* that uses it says whether the request is counted)
Begin(p, r) ==
    /\ pc[p] = "idle"
    /\ Goto(p, FirstLine(r.op))
    /\ req' = [req EXCEPT ![p] = r]
    /\ pre' = [pre EXCEPT ![p] = [mem |-> heap[activities], file |-> file,
                                   edited |-> edited]]
    /\ UNCHANGED <<heap, activities, file, tmp, activity, data, exc, resp, last, saved,
                   edited, cleanup>>

\* ------------------------------------------------------ signup_for_activity
\* mutant: the existence check is skipped
ActivityMissing_never(m, name) == FALSE
\* line 136: `activity_name not in activities`
ActivityMissing(m, name) == ~PyIn(name, m)
\* mutants: the duplicate check is skipped; it looks at the first entry only
AlreadySignedUp_never(m, name, email) == FALSE
AlreadySignedUp_first(m, name, email) ==
    /\ Participants(m, name).items # <<>>
    /\ Participants(m, name).items[1] = JStr(email)
\* mutant: a full activity turns the signup away as well
AlreadySignedUp_orfull(m, name, email) ==
    \/ ListHas(Participants(m, name), JStr(email))
    \/ Len(Participants(m, name).items) >= Get(Get(m, name), "max_participants").n
\* line 143: `email in activity["participants"]`
AlreadySignedUp(m, name, email) == ListHas(Participants(m, name), JStr(email))
\* mutant: the email is inserted at the front of the list
AppendParticipant_front(m, name, email) ==
    WithParticipants(m, name, JArr(<<JStr(email)>> \o Participants(m, name).items))
\* mutant: the append goes to a copy and the mapping keeps its list
AppendParticipant_copy(m, name, email) == m
\* line 150: activity["participants"].append(email), in place
AppendParticipant(m, name, email) ==
    WithParticipants(m, name, ListAppend(Participants(m, name), JStr(email)))

signup_L136(p) ==
    /\ pc[p] = "L136"
    /\ IF ActivityMissing(heap[activities], req[p].name)
       THEN Reply(p, 404, -1)
       ELSE Goto(p, "L140") /\ UNCHANGED resp
    /\ UNCHANGED <<heap, activities, file, tmp, req, activity, data, exc, pre, last, saved, edited, cleanup, begun>>

\* line 140: activity = activities[activity_name]; a list or a mapping that
\* lost the key raises (TypeError, KeyError), which nothing catches
signup_L140(p) ==
    /\ pc[p] = "L140"
    /\ IF IsObj(heap[activities]) /\ HasKey(heap[activities], req[p].name)
       THEN /\ activity' = [activity EXCEPT ![p] = activities]
            /\ Goto(p, "L143")
            /\ UNCHANGED resp
       ELSE Reply(p, 500, -1) /\ UNCHANGED activity
    /\ UNCHANGED <<heap, activities, file, tmp, req, data, exc, pre, last, saved, edited, cleanup, begun>>

signup_L143(p) ==
    /\ pc[p] = "L143"
    /\ IF ~HasRoster(heap[activity[p]], req[p].name)
       THEN Reply(p, 500, -1)
       ELSE IF AlreadySignedUp(heap[activity[p]], req[p].name, req[p].email)
       THEN Reply(p, 400, -1)
       ELSE Goto(p, "L150") /\ UNCHANGED resp
    /\ UNCHANGED <<heap, activities, file, tmp, req, activity, data, exc, pre, last, saved, edited, cleanup, begun>>

\* mutant: check and append are one atomic step (the append looks again)
signup_L150_recheck(p) ==
    /\ pc[p] = "L150"
    /\ heap' = [heap EXCEPT ![activity[p]] =
                   IF AlreadySignedUp(@, req[p].name, req[p].email)
                   THEN @
                   ELSE AppendParticipant(@, req[p].name, req[p].email)]
    /\ Goto(p, "L151")
    /\ UNCHANGED <<activities, file, tmp, req, activity, data, exc, resp, pre, last, saved,
                   edited, cleanup, begun>>
signup_L150(p) ==
    /\ pc[p] = "L150"
    /\ heap' = [heap EXCEPT ![activity[p]] =
                   AppendParticipant(@, req[p].name, req[p].email)]
    /\ Goto(p, "L151")
    /\ UNCHANGED <<activities, file, tmp, req, activity, data, exc, resp, pre, last, saved, edited, cleanup, begun>>

\* mutant: the handler returns without saving
signup_L151_nosave(p) ==
    /\ pc[p] = "L151"
    /\ Goto(p, "L152")
    /\ UNCHANGED <<heap, activities, file, tmp, req, activity, data, exc, resp, pre, last,
                   saved, edited, cleanup, begun>>
\* mutant: the save is given the mapping the activity record was taken from
signup_L151_samemap(p) ==
    /\ pc[p] = "L151"
    /\ data' = [data EXCEPT ![p] = activity[p]]
    /\ Goto(p, "L106")
    /\ UNCHANGED <<heap, activities, file, tmp, req, activity, exc, resp, pre, last, saved,
                   edited, cleanup, begun>>
\* line 151: save_activities(activities) reads the global again
signup_L151(p) ==
    /\ pc[p] = "L151"
    /\ data' = [data EXCEPT ![p] = activities]
    /\ Goto(p, "L106")
    /\ UNCHANGED <<heap, activities, file, tmp, req, activity, exc, resp, pre, last, saved, edited, cleanup, begun>>

signup_L152(p) ==
    /\ pc[p] = "L152"
    /\ Reply(p, 200, -1)
    /\ UNCHANGED <<heap, activities, file, tmp, req, activity, data, exc, pre, last, saved, edited, cleanup, begun>>

\* ------------------------------------------------- unregister_from_activity
\* mutant: the membership check is skipped
NotSignedUp_never(m, name, email) == FALSE
\* line 166: `email not in activity["participants"]`
NotSignedUp(m, name, email) == ~ListHas(Participants(m, name), JStr(email))
\* mutant: the last occurrence is removed instead of the first
RemoveParticipant_last(m, name, email) ==
    LET its == Participants(m, name).items
        i == CHOOSE i \in 1..Len(its) :
                 its[i] = JStr(email) /\ \A j \in (i + 1)..Len(its) : its[j] # JStr(email)
    IN  WithParticipants(m, name,
            JArr(SubSeq(its, 1, i - 1) \o SubSeq(its, i + 1, Len(its))))
\* line 173: activity["participants"].remove(email): the first occurrence
RemoveParticipant(m, name, email) ==
    WithParticipants(m, name, ListRemove(Participants(m, name), JStr(email)))

unregister_L159(p) ==
    /\ pc[p] = "L159"
    /\ IF ActivityMissing(heap[activities], req[p].name)
       THEN Reply(p, 404, -1)
       ELSE Goto(p, "L163") /\ UNCHANGED resp
    /\ UNCHANGED <<heap, activities, file, tmp, req, activity, data, exc, pre, last, saved, edited, cleanup, begun>>

unregister_L163(p) ==
    /\ pc[p] = "L163"
    /\ IF IsObj(heap[activities]) /\ HasKey(heap[activities], req[p].name)
       THEN /\ activity' = [activity EXCEPT ![p] = activities]
            /\ Goto(p, "L166")
            /\ UNCHANGED resp
       ELSE Reply(p, 500, -1) /\ UNCHANGED activity
    /\ UNCHANGED <<heap, activities, file, tmp, req, data, exc, pre, last, saved, edited, cleanup, begun>>

unregister_L166(p) ==
    /\ pc[p] = "L166"
    /\ IF ~HasRoster(heap[activity[p]], req[p].name)
       THEN Reply(p, 500, -1)
       ELSE IF NotSignedUp(heap[activity[p]], req[p].name, req[p].email)
       THEN Reply(p, 400, -1)
       ELSE Goto(p, "L173") /\ UNCHANGED resp
    /\ UNCHANGED <<heap, activities, file, tmp, req, activity, data, exc, pre, last, saved, edited, cleanup, begun>>

\* line 173: list.remove raises ValueError when the email is not in the list
\* (any more), which nothing catches
RemoveRaises(m, name, email) == ~ListHas(Participants(m, name), JStr(email))
unregister_L173(p) ==
    /\ pc[p] = "L173"
    /\ IF RemoveRaises(heap[activity[p]], req[p].name, req[p].email)
       THEN Reply(p, 500, -1) /\ UNCHANGED heap
       ELSE /\ heap' = [heap EXCEPT ![activity[p]] =
                           RemoveParticipant(@, req[p].name, req[p].email)]
            /\ Goto(p, "L174")
            /\ UNCHANGED resp
    /\ UNCHANGED <<activities, file, tmp, req, activity, data, exc, pre, last, saved, edited, cleanup, begun>>

unregister_L174(p) ==
    /\ pc[p] = "L174"
    /\ data' = [data EXCEPT ![p] = activities]
    /\ Goto(p, "L106")
    /\ UNCHANGED <<heap, activities, file, tmp, req, activity, exc, resp, pre, last, saved, edited, cleanup, begun>>

unregister_L175(p) ==
    /\ pc[p] = "L175"
    /\ Reply(p, 200, -1)
    /\ UNCHANGED <<heap, activities, file, tmp, req, activity, data, exc, pre, last, saved, edited, cleanup, begun>>

\* ---------------------------------------------------------- save_activities
\* where the handler resumes when save_activities returns
ReturnLine(op) ==
    CASE op = "signup" -> "L152"
      [] op = "unregister" -> "L175"
      [] op = "reload" -> "L182"

\* how much of the dump a failing write may leave behind
CutPoints(n) == {0, n \div 2}

\* mutant: the dump is written straight into ACTIVITIES_FILE
WriteChunk_inplace(p, c) ==
    /\ file' = FileOf(c)
    /\ UNCHANGED tmp
\* json.dump writes into the temp file, never into ACTIVITIES_FILE
WriteChunk(p, c) ==
    /\ tmp' = [tmp EXCEPT ![p] = FileOf(c)]
    /\ UNCHANGED file

\* mutant: the rename installs a serialization made at the time of the rename
Replace_fresh(p) ==
    /\ file' = FileOf(json_dump(heap[data[p]]))
    /\ tmp' = [tmp EXCEPT ![p] = NoFile]
\* os.replace(tmp_path, ACTIVITIES_FILE): the canonical path now names the
\* temp file's content and the temp name is gone
Replace(p) ==
    /\ file' = FileOf(tmp[p].c)
    /\ tmp' = [tmp EXCEPT ![p] = NoFile]

Raise(p) == exc' = [exc EXCEPT ![p] = TRUE]

\* line 106: tempfile.mkstemp, outside the try: its error skips the finally
save_L106(p) ==
    /\ pc[p] = "L106"
    /\ \/ /\ tmp' = [tmp EXCEPT ![p] = FileOf(<<>>)]
          /\ Goto(p, "L109a")
          /\ UNCHANGED <<exc, resp>>
       \/ /\ Raise(p)
          /\ Reply(p, 500, -1)
          /\ UNCHANGED tmp
    /\ UNCHANGED <<heap, activities, file, req, activity, data, pre, last, saved, edited, cleanup, begun>>

\* lines 108-109: json.dump writes the serialization chunk by chunk
save_L109a(p) ==
    /\ pc[p] = "L109a"
    /\ LET c == json_dump(heap[data[p]])
       IN  \/ /\ WriteChunk(p, Prefix(c, Len(c) - 1))
              /\ Goto(p, "L109b")
              /\ UNCHANGED exc
           \/ /\ \E k \in CutPoints(Len(c)) : WriteChunk(p, Prefix(c, k))
              /\ Raise(p)
              /\ Goto(p, "L112")
    /\ UNCHANGED <<heap, activities, req, activity, data, resp, pre, last, saved, edited, cleanup, begun>>

\* the last chunk and the close of the `with` block
save_L109b(p) ==
    /\ pc[p] = "L109b"
    /\ \/ /\ WriteChunk(p, json_dump(heap[data[p]]))
          /\ Goto(p, "L110")
          /\ UNCHANGED exc
       \/ /\ Raise(p)
          /\ Goto(p, "L112")
          /\ UNCHANGED <<tmp, file>>
    /\ UNCHANGED <<heap, activities, req, activity, data, resp, pre, last, saved, edited, cleanup, begun>>

save_L110(p) ==
    /\ pc[p] = "L110"
    /\ \/ /\ Replace(p)
          /\ saved' = heap[data[p]]
          /\ edited' = FALSE
          /\ UNCHANGED exc
       \/ /\ Raise(p)
          /\ UNCHANGED <<tmp, file, saved, edited>>
    /\ Goto(p, "L112")
    /\ UNCHANGED <<heap, activities, req, activity, data, resp, pre, last, cleanup, begun>>

\* mutant: the handler swallows the error of the save and returns normally
AfterSave_swallow(p) ==
    Goto(p, ReturnLine(req[p].op)) /\ UNCHANGED resp
\* lines 111-116: the finally block, then the return or the re-raise
AfterSave(p) ==
    IF exc[p] THEN Reply(p, 500, -1)
    ELSE Goto(p, ReturnLine(req[p].op)) /\ UNCHANGED resp
\* mutant: the finally block is missing
save_L112_nocleanup(p) ==
    /\ pc[p] = "L112"
    /\ AfterSave(p)
    /\ UNCHANGED <<heap, activities, file, tmp, req, activity, data, exc, pre, last, saved,
                   edited, cleanup, begun>>
save_L112(p) ==
    /\ pc[p] = "L112"
    /\ \/ /\ tmp[p].x
          /\ tmp' = [tmp EXCEPT ![p] = NoFile]
          /\ cleanup' = [cleanup EXCEPT ![p] = "removed"]
       \/ /\ tmp[p].x       \* os.remove raised OSError, which is swallowed
          /\ cleanup' = [cleanup EXCEPT ![p] = "failed"]
          /\ UNCHANGED tmp
       \/ /\ ~tmp[p].x
          /\ UNCHANGED <<tmp, cleanup>>
    /\ AfterSave(p)
    /\ UNCHANGED <<heap, activities, file, req, activity, data, exc, pre, last, saved, edited, begun>>

\* ---------------------------------------------------------- load_activities
\* line 90: ACTIVITIES_FILE.exists()
load_L90(p) ==
    /\ pc[p] = "L90"
    /\ Goto(p, IF file.x THEN "L95" ELSE "L91")
    /\ UNCHANGED <<heap, activities, file, tmp, req, activity, data, exc, resp, pre, last, saved, edited, cleanup, begun>>

\* mutant: the defaults are returned without being persisted
LoadDefaults_nosave(p) ==
    /\ HasFree(heap)
    /\ heap' = [heap EXCEPT ![NewObj(heap)] = default_activities]
    /\ data' = [data EXCEPT ![p] = NewObj(heap)]
    /\ Goto(p, "L182")
    /\ UNCHANGED <<activities, file, tmp, req, activity, exc, resp, pre, last, saved, edited, cleanup, begun>>
\* data = _default_activities(); save_activities(data)
LoadDefaults(p) ==
    /\ HasFree(heap)
    /\ heap' = [heap EXCEPT ![NewObj(heap)] = default_activities]
    /\ data' = [data EXCEPT ![p] = NewObj(heap)]
    /\ Goto(p, "L106")
    /\ UNCHANGED <<activities, file, tmp, req, activity, exc, resp, pre, last, saved, edited, cleanup, begun>>

load_L91(p) == pc[p] = "L91" /\ LoadDefaults(p)

\* lines 94-97: open and json.load; any exception leads to the fallback.
\* The read fails when the file is gone or does not parse; an I/O error on a
\* present, well-formed file is not modelled.
ReadFails(f) == ~f.x \/ ~json_load(f.c).ok
load_L95(p) ==
    /\ pc[p] = "L95"
    /\ IF ReadFails(file)
       THEN Goto(p, "L99") /\ UNCHANGED <<heap, data, edited>>
       ELSE /\ HasFree(heap)
            /\ heap' = [heap EXCEPT ![NewObj(heap)] = json_load(file.c).v]
            /\ data' = [data EXCEPT ![p] = NewObj(heap)]
            /\ edited' = FALSE
            /\ Goto(p, "L182")
    /\ UNCHANGED <<activities, file, tmp, req, activity, exc, resp, pre, last, saved, cleanup, begun>>

load_L99(p) == pc[p] = "L99" /\ LoadDefaults(p)

\* --------------------------------------------------------- reload_activities
\* line 182: activities = load_activities(): the global names the new object
reload_L182(p) ==
    /\ pc[p] = "L182"
    /\ activities' = data[p]
    /\ data' = [data EXCEPT ![p] = 0]
    /\ heap' = Sweep(heap, Roots(activities', activity, data'))
    /\ Goto(p, "L183")
    /\ UNCHANGED <<file, tmp, req, activity, exc, resp, pre, last, saved, edited, cleanup, begun>>

reload_L183(p) ==
    /\ pc[p] = "L183"
    /\ IF PyLen(heap[activities]) < 0
       THEN Reply(p, 500, -1)
       ELSE Reply(p, 200, PyLen(heap[activities]))
    /\ UNCHANGED <<heap, activities, file, tmp, req, activity, data, exc, pre, last, saved, edited, cleanup, begun>>

\* ------------------------------------------------------------ the response
RosterSize(m, name) ==
    IF HasRoster(m, name) THEN Len(Participants(m, name).items) ELSE -1

RosterItems(m, name) ==
    IF HasRoster(m, name) THEN Participants(m, name).items ELSE <<>>

\* history kept of the request that completed last: a successful signup, or a
\* signup or unregister whose save raised, with the roster as it was when the
\* request began and whether the file then held the mapping; any other
\* request clears it
Completed(p) ==
    IF \/ req[p].op = "signup" /\ resp[p].status = 200
       \/ req[p].op \in {"signup", "unregister"} /\ resp[p].status = 500 /\ exc[p]
    THEN [req |-> req[p], status |-> resp[p].status,
          n0 |-> RosterSize(pre[p].mem, req[p].name),
          r0 |-> RosterItems(pre[p].mem, req[p].name),
          sync0 |-> (pre[p].file = FileOf(json_dump(pre[p].mem)))]
    ELSE NoLast

\* the response leaves; the thread's locals die with its frame
Respond(p) ==
    /\ pc[p] = "done"
    /\ Goto(p, "idle")
    /\ last' = Completed(p)
    /\ req' = [req EXCEPT ![p] = NoReq]
    /\ activity' = [activity EXCEPT ![p] = 0]
    /\ data' = [data EXCEPT ![p] = 0]
    /\ exc' = [exc EXCEPT ![p] = FALSE]
    /\ resp' = [resp EXCEPT ![p] = NoResp]
    /\ pre' = [pre EXCEPT ![p] = NoPre]
    /\ tmp' = [tmp EXCEPT ![p] = NoFile]
    /\ cleanup' = [cleanup EXCEPT ![p] = "none"]
    /\ heap' = Sweep(heap, Roots(activities, activity', data'))
    /\ UNCHANGED <<activities, file, saved, edited, begun>>

\* ------------------------------------------------------ out-of-band edits
ExtWrite(c) ==
    /\ file # FileOf(c)
    /\ file' = FileOf(c)
    /\ last' = NoLast
    /\ saved' = NoVal
    /\ edited' = TRUE
    /\ UNCHANGED <<heap, activities, tmp, pc, req, activity, data, exc, resp, pre, cleanup, begun>>

ExtDelete ==
    /\ file.x
    /\ file' = NoFile
    /\ last' = NoLast
    /\ saved' = NoVal
    /\ edited' = TRUE
    /\ UNCHANGED <<heap, activities, tmp, pc, req, activity, data, exc, resp, pre, cleanup, begun>>

\* ------------------------------------------------------- the specification
Step(p) ==
    \/ signup_L136(p) \/ signup_L140(p) \/ signup_L143(p)
    \/ signup_L150(p) \/ signup_L151(p) \/ signup_L152(p)
    \/ unregister_L159(p) \/ unregister_L163(p) \/ unregister_L166(p)
    \/ unregister_L173(p) \/ unregister_L174(p) \/ unregister_L175(p)
    \/ save_L106(p) \/ save_L109a(p) \/ save_L109b(p)
    \/ save_L110(p) \/ save_L112(p)
    \/ load_L90(p) \/ load_L91(p) \/ load_L95(p) \/ load_L99(p)
    \/ reload_L182(p) \/ reload_L183(p)
    \/ Respond(p)

\* requests are executed one after the other; the file is edited out of
\* band only between requests
Next ==
    \/ \E p \in Procs : \E r \in Requests : AllIdle /\ Begin(p, r) /\ UNCHANGED begun
    \/ \E p \in Procs : Step(p)
    \/ \E c \in ExtContents : AllIdle /\ ExtWrite(c)
    \/ AllIdle /\ ExtDelete

Spec == Init /\ [][Next]_vars

\* ---------------------------------------------- the concurrent specification
\* FastAPI runs the three handlers (plain `def`) in a thread pool, so requests
\* overlap and their lines interleave.  This specification lets them: up to
\* MaxRequests requests, on a filesystem that neither fails nor is edited out
\* of band, so that the file is always there and always parses.
ConcEmails == {"new@mergington.edu", "other@mergington.edu"}
ConcRequests ==
    {[op |-> "signup", name |-> "Chess Club", email |-> e] : e \in ConcEmails}
    \cup {[op |-> "unregister", name |-> "Chess Club", email |-> "michael@mergington.edu"],
          [op |-> "reload", name |-> "", email |-> ""]}

NoFault == \A p \in Procs : ~exc[p]

ConcStep(p) ==
    \/ signup_L136(p) \/ signup_L140(p) \/ signup_L143(p)
    \/ signup_L150(p) \/ signup_L151(p) \/ signup_L152(p)
    \/ unregister_L159(p) \/ unregister_L163(p) \/ unregister_L166(p)
    \/ unregister_L173(p) \/ unregister_L174(p) \/ unregister_L175(p)
    \/ save_L106(p) /\ NoFault'
    \/ save_L109a(p) /\ NoFault'
    \/ save_L109b(p) /\ NoFault'
    \/ save_L110(p) /\ NoFault'
    \/ save_L112(p)
    \/ load_L90(p) \/ load_L95(p)
    \/ reload_L182(p) \/ reload_L183(p)
    \/ Respond(p)

NextConc ==
    \/ \E p \in Procs : \E r \in ConcRequests :
          /\ begun < MaxRequests
          /\ \A q \in 1..(p - 1) : pc[q] # "idle"   \* the pool's threads are alike
          /\ Begin(p, r)
          /\ begun' = begun + 1
    \/ \E p \in Procs : ConcStep(p)

SpecConc == Init /\ [][NextConc]_vars

\* ================================================================ claims
Mem == heap[activities]
Ended(p, ops) == pc[p] = "done" /\ req[p].op \in ops
Roster(m, name) == Participants(m, name)
Occurrences(m, name, email) == ListCount(Roster(m, name), JStr(email))
NoSaveBy(p) == data[p] = 0 /\ tmp[p] = NoFile /\ ~exc[p]

\* C1: when signup(A, E) answers 200, E occurs exactly once in A's
\* participants in the in-memory mapping.
C1_SignupOnce ==
    \A p \in Procs :
        (Ended(p, {"signup"}) /\ resp[p].status = 200)
        => /\ HasRoster(Mem, req[p].name)
           /\ Occurrences(Mem, req[p].name, req[p].email) = 1

C1_Witness ==
    \E p \in Procs :
        /\ Ended(p, {"signup"}) /\ resp[p].status = 200
        /\ req[p].email = "michael@mergington.edu"
        /\ Occurrences(Mem, req[p].name, req[p].email) = 1
        /\ Len(Roster(Mem, req[p].name).items) = 3

\* C2: when signup or unregister answers 200, the file already holds the
\* serialization of the in-memory mapping, changed participant list included:
\* reading the file back gives the mapping in memory.
C2_PersistedBeforeResponse ==
    \A p \in Procs :
        (Ended(p, {"signup", "unregister"}) /\ resp[p].status = 200)
        => /\ file = FileOf(json_dump(Mem))
           /\ json_load(file.c).ok /\ json_load(file.c).v = Mem
           /\ Mem # pre[p].mem
           /\ Len(Roster(Mem, req[p].name).items)
                = Len(Roster(pre[p].mem, req[p].name).items)
                  + (IF req[p].op = "signup" THEN 1 ELSE -1)

C2_Witness ==
    \E p \in Procs :
        /\ Ended(p, {"unregister"}) /\ resp[p].status = 200
        /\ file # pre[p].file
        /\ json_load(file.c).v = Mem

\* C3: signup(A, E) for an existing A without E succeeds (unless its save
\* raises); repeated right after a success it answers 400, leaves mapping and
\* file as they were, and the roster is one longer than before the first call.
C3_SecondSignupConflicts ==
    \A p \in Procs :
        Ended(p, {"signup"})
        => /\ (HasRoster(pre[p].mem, req[p].name)
               /\ Occurrences(pre[p].mem, req[p].name, req[p].email) = 0)
              => (resp[p].status = 200 \/ (resp[p].status = 500 /\ exc[p]))
           /\ (last.req = req[p] /\ last.status = 200)
              => /\ resp[p].status = 400
                 /\ Mem = pre[p].mem
                 /\ file = pre[p].file
                 /\ RosterSize(Mem, req[p].name) = last.n0 + 1

C3_Witness ==
    \E p \in Procs :
        /\ Ended(p, {"signup"}) /\ last.req = req[p] /\ last.status = 200
        /\ resp[p].status = 400
        /\ RosterSize(Mem, req[p].name) = last.n0 + 1

\* C4: unregister(A, E) for an existing A that does not list E answers 400;
\* mapping and file are as before the request and no save was started.
C4_UnregisterAbsentConflicts ==
    \A p \in Procs :
        (/\ Ended(p, {"unregister"})
         /\ HasRoster(pre[p].mem, req[p].name)
         /\ Occurrences(pre[p].mem, req[p].name, req[p].email) = 0)
        => /\ resp[p].status = 400
           /\ Mem = pre[p].mem
           /\ file = pre[p].file
           /\ NoSaveBy(p)

C4_Witness ==
    \E p \in Procs :
        /\ Ended(p, {"unregister"}) /\ resp[p].status = 400
        /\ HasRoster(pre[p].mem, req[p].name)
        /\ Occurrences(pre[p].mem, req[p].name, req[p].email) = 0

\* C5: signup or unregister for a name that is no key of the mapping answers
\* 404, whatever the email; mapping (its keys included) and file are as before
\* the request and no save was started.
C5_UnknownActivityNotFound ==
    \A p \in Procs :
        (/\ Ended(p, {"signup", "unregister"})
         /\ IsObj(pre[p].mem) /\ ~HasKey(pre[p].mem, req[p].name))
        => /\ resp[p].status = 404
           /\ Mem = pre[p].mem
           /\ Keys(Mem) = Keys(pre[p].mem)
           /\ file = pre[p].file
           /\ NoSaveBy(p)

C5_Witness ==
    \E p \in Procs :
        /\ Ended(p, {"signup"}) /\ resp[p].status = 404
        /\ IsObj(pre[p].mem) /\ ~HasKey(pre[p].mem, req[p].name)
        /\ req[p].email = "new@mergington.edu"

\* C6 (as claimed): a reload that answers, begun when the file has not been
\* edited out of band since the program last read or replaced it, leaves the
\* in-memory mapping as it was; so does a second reload right after.
C6_ReloadIdempotent ==
    \A p \in Procs :
        (Ended(p, {"reload"}) /\ resp[p].status = 200 /\ ~pre[p].edited)
        => Mem = pre[p].mem

\* a name-to-activity mapping: a dict whose every value is a record with a
\* participants list
IsStore(v) == IsObj(v) /\ \A k \in Keys(v) : HasRoster(v, k)

\* C7 (as claimed): load_activities returns a name-to-activity mapping and
\* raises nothing, whatever the file holds and whatever its save does.
C7_LoadNeverFails ==
    \A p \in Procs :
        req[p].op = "reload"
        => /\ pc[p] = "L182" => IsStore(heap[data[p]])
           /\ pc[p] = "done" => resp[p].status = 200

\* C8: when load_activities returns after finding the file absent or
\* unparsable, it returns the default set (9 activities with 2 participants
\* each) and the file exists and parses to that default set.
C8_DefaultFallback ==
    \A p \in Procs :
        (req[p].op = "reload" /\ pc[p] = "L182" /\ ReadFails(pre[p].file))
        => /\ heap[data[p]] = default_activities
           /\ PyLen(heap[data[p]]) = 9
           /\ \A k \in Keys(heap[data[p]]) : RosterSize(heap[data[p]], k) = 2
           /\ file.x
           /\ json_load(file.c).ok
           /\ json_load(file.c).v = default_activities

C8_Witness ==
    \E p \in Procs :
        /\ req[p].op = "reload" /\ pc[p] = "L182"
        /\ pre[p].file = FileOf(CorruptContent)
        /\ heap[data[p]] = default_activities
        /\ file = FileOf(json_dump(default_activities))

\* C9: while the file is the one a completed save(M) left, load_activities
\* does not take the fallback and returns a mapping equal to M (keys, field
\* values and participant order).
C9_RoundTrip ==
    \A p \in Procs :
        (req[p].op = "reload" /\ saved # NoVal)
        => /\ pc[p] \notin {"L91", "L99"}
           /\ pc[p] = "L182" => heap[data[p]] = saved

C9_Witness ==
    \E p \in Procs :
        /\ req[p].op = "reload" /\ pc[p] = "L182"
        /\ saved # NoVal /\ saved # default_activities
        /\ heap[data[p]] = saved
        /\ HasKey(saved, "Empty Club")
        /\ Occurrences(saved, "Chess Club", "new@mergington.edu") = 1

\* C10: from the call of save_activities to its return or raise, the
\* canonical file is the complete content it had before or the complete
\* serialization of the mapping being saved: the old one up to the rename and
\* after any failure, the new one after a rename that succeeded.
SaveLines == {"L106", "L109a", "L109b", "L110", "L112"}
C10_AtomicReplace ==
    \A p \in Procs :
        (data[p] # 0 /\ pc[p] \in SaveLines \cup {"done"})
        => LET new == FileOf(json_dump(heap[data[p]]))
           IN  /\ file \in {pre[p].file, new}
               /\ json_load(new.c).ok
               /\ pc[p] \in SaveLines \ {"L112"} => file = pre[p].file
               /\ exc[p] => file = pre[p].file
               /\ (pc[p] = "L112" /\ ~exc[p]) => file = new

C10_Witness ==
    \E p \in Procs :
        /\ pc[p] = "L112" /\ exc[p]
        /\ tmp[p].x /\ tmp[p].c # <<>>
        /\ tmp[p].c # json_dump(heap[data[p]])
        /\ file = pre[p].file
        /\ file # FileOf(json_dump(heap[data[p]]))

\* C12: an error that save_activities raises inside signup or unregister is
\* caught by nothing: from the moment it is raised the request can only run
\* the finally block and end, and it ends as an unhandled failure (500), never
\* as a success or as a 400 or 404.  A failed os.remove in the finally block is
\* swallowed and leaves the outcome the same.
C12_SaveErrorUnhandled ==
    \A p \in Procs :
        (req[p].op \in {"signup", "unregister"} /\ (exc[p] \/ cleanup[p] = "failed"))
        => /\ exc[p]
           /\ pc[p] \in {"L112", "done"}
           /\ pc[p] = "done" => resp[p].status = 500

C12_Witness ==
    /\ \E p \in Procs :
        Ended(p, {"unregister"}) /\ exc[p] /\ resp[p].status = 500
    /\ \E p \in Procs :
        Ended(p, {"signup", "unregister"}) /\ cleanup[p] = "failed"

\* activity["max_participants"], where the record has that number
HasCapacity(m, name) ==
    /\ HasRoster(m, name)
    /\ HasKey(Get(m, name), "max_participants")
    /\ Get(Get(m, name), "max_participants").t = "num"
Capacity(m, name) == Get(Get(m, name), "max_participants").n

\* C13: max_participants is never looked at: a signup for an existing activity
\* with an email it does not list succeeds (unless its save raises) whatever
\* the number of participants is, and when that number had already reached
\* max_participants the success leaves the roster one longer, above
\* max_participants.
C13_CapacityNotEnforced ==
    \A p \in Procs :
        (/\ Ended(p, {"signup"})
         /\ HasCapacity(pre[p].mem, req[p].name)
         /\ Occurrences(pre[p].mem, req[p].name, req[p].email) = 0)
        => /\ resp[p].status = 200 \/ (resp[p].status = 500 /\ exc[p])
           /\ resp[p].status = 200
              => /\ HasCapacity(Mem, req[p].name)
                 /\ Capacity(Mem, req[p].name) = Capacity(pre[p].mem, req[p].name)
                 /\ RosterSize(Mem, req[p].name)
                        = RosterSize(pre[p].mem, req[p].name) + 1

C13_Witness ==
    \E p \in Procs :
        /\ Ended(p, {"signup"}) /\ resp[p].status = 200
        /\ HasCapacity(pre[p].mem, req[p].name)
        /\ RosterSize(pre[p].mem, req[p].name) >= Capacity(pre[p].mem, req[p].name)
        /\ RosterSize(Mem, req[p].name) > Capacity(Mem, req[p].name)

\* two dicts agree on their keys, in order, and on every value except the one
\* under key k
SameExcept(d, e, k) ==
    /\ IsObj(d) /\ IsObj(e)
    /\ Len(d.members) = Len(e.members)
    /\ \A i \in 1..Len(d.members) :
          /\ d.members[i].k = e.members[i].k
          /\ d.members[i].k # k => d.members[i].v = e.members[i].v

\* C14: a signup(A, E) that answers 200 has changed nothing but A's
\* participant list, and that only by appending E at its end: the earlier
\* participants keep their order, the activity names and every other activity
\* are as before, and so are A's description, schedule and max_participants.
C14_SignupFrame ==
    \A p \in Procs :
        (Ended(p, {"signup"}) /\ resp[p].status = 200)
        => /\ HasRoster(pre[p].mem, req[p].name)
           /\ SameExcept(Mem, pre[p].mem, req[p].name)
           /\ SameExcept(Get(Mem, req[p].name), Get(pre[p].mem, req[p].name),
                         "participants")
           /\ IsArr(Roster(Mem, req[p].name))
           /\ Roster(Mem, req[p].name).items
                 = Append(Roster(pre[p].mem, req[p].name).items, JStr(req[p].email))

C14_Witness ==
    \E p \in Procs :
        /\ Ended(p, {"signup"}) /\ resp[p].status = 200
        /\ Len(Mem.members) > 1
        /\ Len(Roster(pre[p].mem, req[p].name).items) >= 2
        /\ Get(Mem, req[p].name) # Get(pre[p].mem, req[p].name)
        /\ \E k \in Keys(Mem) : k # req[p].name /\ Get(Mem, k) = Get(pre[p].mem, k)

\* list `new` is list `old` without its entry at index i
WithoutIndex(new, old, i) ==
    /\ Len(new) = Len(old) - 1
    /\ \A j \in 1..Len(new) : new[j] = (IF j < i THEN old[j] ELSE old[j + 1])

\* C15: an unregister(A, E) that answers 200 has removed exactly one entry of
\* A's participant list, the first one equal to E, and kept the others in
\* their order; nothing else in the mapping changed and the file holds the
\* result.  When E occurred once before, it is absent afterwards; when the
\* request before it was a successful signup(A, E), A's list is again what it
\* was before that signup.
C15_UnregisterRemovesFirst ==
    \A p \in Procs :
        (Ended(p, {"unregister"}) /\ resp[p].status = 200)
        => LET old == RosterItems(pre[p].mem, req[p].name)
               new == RosterItems(Mem, req[p].name)
               E == JStr(req[p].email)
           IN  /\ HasRoster(pre[p].mem, req[p].name) /\ HasRoster(Mem, req[p].name)
               /\ \E i \in 1..Len(old) :
                     /\ old[i] = E
                     /\ \A j \in 1..(i - 1) : old[j] # E
                     /\ WithoutIndex(new, old, i)
               /\ SameExcept(Mem, pre[p].mem, req[p].name)
               /\ SameExcept(Get(Mem, req[p].name), Get(pre[p].mem, req[p].name),
                             "participants")
               /\ file = FileOf(json_dump(Mem))
               /\ Occurrences(pre[p].mem, req[p].name, req[p].email) = 1
                  => Occurrences(Mem, req[p].name, req[p].email) = 0
               /\ (/\ last.status = 200
                   /\ last.req.name = req[p].name
                   /\ last.req.email = req[p].email)
                  => new = last.r0

C15_Witness ==
    \E p \in Procs :
        /\ Ended(p, {"unregister"}) /\ resp[p].status = 200
        /\ Occurrences(pre[p].mem, req[p].name, req[p].email) = 2
        /\ Occurrences(Mem, req[p].name, req[p].email) = 1
        /\ RosterItems(Mem, req[p].name)[1] # JStr(req[p].email)

\* where a thread is once its call of save_activities has returned or raised
AfterSaveLines == {"L152", "L175", "L182", "L183", "done"}

\* C16, as stated: once save_activities has returned or raised, no temp file
\* created by that call remains.
C16_NoTempLeft ==
    \A p \in Procs : pc[p] \in AfterSaveLines => ~tmp[p].x

\* C16, amended: the temp file exists throughout the try block; at the finally
\* block it is still there exactly when the save failed, and then (and only
\* then) its removal is attempted.  Once save_activities has returned or
\* raised, a temp file of that call remains only if that removal failed; a
\* save whose replace succeeded attempted no removal and left no temp file.
C16_TempCleanup ==
    \A p \in Procs :
        /\ pc[p] \in {"L109a", "L109b", "L110"} => tmp[p].x /\ cleanup[p] = "none"
        /\ pc[p] = "L112" => (tmp[p].x <=> exc[p]) /\ cleanup[p] = "none"
        /\ pc[p] \in AfterSaveLines
           => /\ tmp[p].x <=> cleanup[p] = "failed"
              /\ cleanup[p] # "none" => exc[p]

C16_Witness ==
    \E p \in Procs :
        /\ pc[p] = "done" /\ exc[p]
        /\ cleanup[p] = "removed" /\ ~tmp[p].x

\* C17, as stated: after every signup or unregister whose save raised, the
\* mapping and the file differ, and a reload that follows drops the change.
C17_FailedSaveDiffers ==
    \A p \in Procs :
        /\ (Ended(p, {"signup", "unregister"}) /\ exc[p])
           => file # FileOf(json_dump(Mem))
        /\ (Ended(p, {"reload"}) /\ last.status = 500)
           => RosterItems(Mem, last.req.name) = last.r0

\* C17, amended: signup and unregister change the roster in memory before they save.
\* When the save raises, the request ends 500, the mapping keeps the change
\* (the email appended, or its first occurrence removed) and the file is what
\* it was; if the file held the mapping when the request began, the two now
\* differ.  Repeating a signup that failed this way answers 400, and a reload
\* that follows the failed request (the file having held the mapping before
\* it) brings the roster back to what it was before the request.
C17_FailedSaveKeepsChange ==
    \A p \in Procs :
        /\ (Ended(p, {"signup", "unregister"}) /\ exc[p])
           => LET old == RosterItems(pre[p].mem, req[p].name)
                  new == RosterItems(Mem, req[p].name)
              IN  /\ resp[p].status = 500
                  /\ file = pre[p].file
                  /\ HasRoster(Mem, req[p].name)
                  /\ SameExcept(Mem, pre[p].mem, req[p].name)
                  /\ req[p].op = "signup" => new = Append(old, JStr(req[p].email))
                  /\ req[p].op = "unregister"
                     => /\ Len(new) = Len(old) - 1
                        /\ Occurrences(Mem, req[p].name, req[p].email)
                              = Occurrences(pre[p].mem, req[p].name, req[p].email) - 1
                  /\ pre[p].file = FileOf(json_dump(pre[p].mem))
                     => file # FileOf(json_dump(Mem))
        /\ (Ended(p, {"signup"}) /\ last.status = 500 /\ last.req = req[p])
           => resp[p].status = 400 /\ Mem = pre[p].mem
        /\ (Ended(p, {"reload"}) /\ last.status = 500 /\ last.sync0)
           => /\ resp[p].status = 200
              /\ RosterItems(pre[p].mem, last.req.name) # last.r0
              /\ RosterItems(Mem, last.req.name) = last.r0

C17_Witness ==
    \E p \in Procs :
        /\ Ended(p, {"reload"}) /\ resp[p].status = 200
        /\ last.status = 500 /\ last.req.op = "signup" /\ last.sync0
        /\ RosterItems(pre[p].mem, last.req.name) = Append(last.r0, JStr(last.req.email))
        /\ RosterItems(Mem, last.req.name) = last.r0
        /\ file = pre[p].file

\* where a signup is between its passed check (line 143) and its response
PastCheck == {"L150", "L151", "L106", "L109a", "L109b", "L110", "L112", "L152"}

\* C11: nothing joins the check of line 143 to the append of line 150.  A
\* signup that has passed the check appends its email whatever the list holds
\* by then (an occurrence appended in between by another request included),
\* and, its save not failing, goes on to answer 200: two requests for the same
\* activity and email that both pass the check both append and both succeed.
C11_CheckThenAppend ==
    [][\A p \in Procs :
          /\ (pc[p] = "L150" /\ pc'[p] # "L150")
             => /\ pc'[p] = "L151"
                /\ Occurrences(heap'[activity[p]], req[p].name, req[p].email)
                      = Occurrences(heap[activity[p]], req[p].name, req[p].email) + 1
          /\ (req[p].op = "signup" /\ pc[p] \in PastCheck /\ pc'[p] = "done")
             => resp'[p].status = 200]_vars

C11_Witness ==
    \E p, q \in Procs :
        /\ p # q /\ req[p] = req[q]
        /\ Ended(p, {"signup"}) /\ resp[p].status = 200
        /\ Ended(q, {"signup"}) /\ resp[q].status = 200
        /\ Occurrences(pre[p].mem, req[p].name, req[p].email) = 0
        /\ Occurrences(pre[q].mem, req[q].name, req[q].email) = 0
        /\ Occurrences(Mem, req[p].name, req[p].email) = 2

\* C18: a save serializes the mapping at lines 108-109 and installs that
\* serialization at line 110, and no lock spans the two.  The temp file of a
\* thread waiting before its rename is not touched by what other requests do
\* to the mapping or to the file, and the rename installs exactly that temp
\* file: a request that serialized earlier and renames later puts a stale
\* snapshot in place.
C18_RenameInstallsSnapshot ==
    [][\A p \in Procs :
          /\ (pc[p] = "L109b" /\ pc'[p] = "L110")
             => tmp'[p] = FileOf(json_dump(heap[data[p]]))
          /\ (pc[p] = "L110" /\ pc'[p] = "L110") => tmp'[p] = tmp[p]
          /\ (pc[p] = "L110" /\ pc'[p] = "L112" /\ ~exc'[p])
             => file' = FileOf(tmp[p].c)]_vars

C18_Witness ==
    \E p, q \in Procs :
        /\ Ended(p, {"signup"}) /\ resp[p].status = 200
        /\ Ended(q, {"signup"}) /\ resp[q].status = 200
        /\ req[p].name = req[q].name /\ req[p].email # req[q].email
        /\ Occurrences(Mem, req[p].name, req[p].email) = 1
        /\ Occurrences(Mem, req[q].name, req[q].email) = 1
        /\ json_load(file.c).ok
        /\ Occurrences(json_load(file.c).v, req[p].name, req[p].email) = 1
        /\ Occurrences(json_load(file.c).v, req[q].name, req[q].email) = 0

\* C19: signup reads the global `activities` once for the record it changes
\* (line 140) and again for the save (line 151).  The append changes only the
\* mapping object fetched at line 140, whatever the global names by then, and
\* the save is handed whatever the global names at line 151: after a reload
\* in between, the email goes into the discarded mapping and the new mapping
\* is what gets saved.
C19_LookupAndSaveReadGlobalTwice ==
    [][\A p \in Procs :
          /\ (pc[p] = "L140" /\ pc'[p] = "L143") => activity'[p] = activities
          /\ (pc[p] = "L150" /\ pc'[p] = "L151")
             => /\ activity'[p] = activity[p]
                /\ \A o \in ObjIds : o # activity[p] => heap'[o] = heap[o]
                /\ heap'[activity[p]] # heap[activity[p]]
          /\ (pc[p] = "L151" /\ pc'[p] = "L106") => data'[p] = activities]_vars

C19_Witness ==
    \E p \in Procs :
        /\ Ended(p, {"signup"}) /\ resp[p].status = 200
        /\ activity[p] # activities
        /\ Occurrences(heap[activity[p]], req[p].name, req[p].email) = 1
        /\ Occurrences(Mem, req[p].name, req[p].email) = 0
        /\ json_load(file.c).ok
        /\ Occurrences(json_load(file.c).v, req[p].name, req[p].email) = 0

====
